---------------------------- MODULE Spec2Model ----------------------------
(***************************************************************************)
(* A model of pyxtal/interface/gulp.py: the GULP calculator (input writer, *)
(* process runner, report parser) and the drivers single_optimize() and    *)
(* optimize().                                                             *)
(*                                                                         *)
(* Text is modelled at the level the parser works on: a report is a        *)
(* sequence of lines, a line is its marker kind plus the tokens that       *)
(* line.split() yields, and a token is a sequence of characters, so that   *)
(* float(), int() and the minus-sign repair of the force rows are computed *)
(* on characters.  Numbers are exact rationals in lowest terms.            *)
(***************************************************************************)
EXTENDS Integers, Sequences, FiniteSets, TLC

(***************************************************************************)
(* Bounds of the model.                                                    *)
(***************************************************************************)
MaxAtoms == 2
MaxPasses == 2

(***************************************************************************)
(* Exact arithmetic on rationals [n, d] with d > 0, in lowest terms.       *)
(***************************************************************************)
Abs(x) == IF x < 0 THEN -x ELSE x

Min(a, b) == IF a < b THEN a ELSE b

RECURSIVE GCD(_, _)
GCD(a, b) == IF b = 0 THEN a ELSE GCD(b, a % b)

RECURSIVE Pow10(_)
Pow10(k) == IF k = 0 THEN 1 ELSE 10 * Pow10(k - 1)

Rat(n, d) ==
    LET g == GCD(Abs(n), d)
    IN  [k |-> "fin", n |-> n \div g, d |-> d \div g]

Zero == Rat(0, 1)
NaN == [k |-> "nan", n |-> 0, d |-> 1]
Inf(sign) == [k |-> "inf", n |-> sign, d |-> 1]
None == [k |-> "none", n |-> 0, d |-> 1]

\* -x
Neg(x) == IF x.k = "fin" \/ x.k = "inf" THEN [x EXCEPT !.n = -x.n] ELSE x

\* x / m for an integer m > 0 (the caller raises ZeroDivisionError on m = 0)
DivInt(x, m) == IF x.k = "fin" THEN Rat(x.n, x.d * m) ELSE x

\* x * p / q for integers p, q > 0
MulFrac(x, p, q) == IF x.k = "fin" THEN Rat(x.n * p, x.d * q) ELSE x

\* x + y
Add(x, y) ==
    IF x.k = "fin" /\ y.k = "fin" THEN Rat(x.n * y.d + y.n * x.d, x.d * y.d)
    ELSE IF x.k = "nan" \/ y.k = "nan" THEN NaN
    ELSE IF x.k = "inf" /\ y.k = "inf" /\ x.n # y.n THEN NaN
    ELSE IF x.k = "inf" THEN x ELSE y

\* abs(x) < 10^-k, without forming x.n * 10^k
AbsBelowPow10(x, k) ==
    CASE x.k = "fin" -> Abs(x.n) < (x.d + Pow10(k) - 1) \div Pow10(k)
      [] OTHER -> FALSE

\* np.isnan
IsNan(x) == x.k = "nan"

(***************************************************************************)
(* float() and int() on a token (a sequence of characters).                *)
(***************************************************************************)
Digits == {"0", "1", "2", "3", "4", "5", "6", "7", "8", "9"}

DigitVal(c) ==
    CASE c = "0" -> 0 [] c = "1" -> 1 [] c = "2" -> 2 [] c = "3" -> 3
      [] c = "4" -> 4 [] c = "5" -> 5 [] c = "6" -> 6 [] c = "7" -> 7
      [] c = "8" -> 8 [] c = "9" -> 9

RECURSIVE DigitsVal(_)
DigitsVal(s) ==
    IF s = <<>> THEN 0
    ELSE 10 * DigitsVal(SubSeq(s, 1, Len(s) - 1)) + DigitVal(s[Len(s)])

IsDigit(c) == c \in Digits
IsDot(c) == c = "."

Unsigned(s) ==
    IF s # <<>> /\ s[1] \in {"-", "+"} THEN Tail(s) ELSE s

SignOf(s) == IF s # <<>> /\ s[1] = "-" THEN -1 ELSE 1

IsDecimal(b) ==
    /\ \A i \in 1..Len(b) : IsDigit(b[i]) \/ IsDot(b[i])
    /\ Len(SelectSeq(b, IsDot)) <= 1
    /\ Len(SelectSeq(b, IsDigit)) >= 1

FracLen(b) ==
    IF \E i \in 1..Len(b) : IsDot(b[i])
    THEN Len(b) - (CHOOSE i \in 1..Len(b) : IsDot(b[i]))
    ELSE 0

\* float(s): [ok |-> FALSE] stands for ValueError
Float(s) ==
    LET b == Unsigned(s)
    IN  IF b = <<"n", "a", "n">> THEN [ok |-> TRUE, v |-> NaN]
        ELSE IF b = <<"i", "n", "f">> THEN [ok |-> TRUE, v |-> Inf(SignOf(s))]
        ELSE IF IsDecimal(b)
             THEN [ok |-> TRUE,
                   v |-> Rat(SignOf(s) * DigitsVal(SelectSeq(b, IsDigit)),
                             Pow10(FracLen(b)))]
             ELSE [ok |-> FALSE, v |-> None]

\* int(s)
ParseInt(s) ==
    LET b == Unsigned(s)
    IN  IF b # <<>> /\ \A i \in 1..Len(b) : IsDigit(b[i])
        THEN [ok |-> TRUE, v |-> SignOf(s) * DigitsVal(b)]
        ELSE [ok |-> FALSE, v |-> 0]


(***************************************************************************)
(* The structure model (pyxtal, Lattice, ase Atoms): the collaborators the *)
(* adapter reads and writes.  Cells are orthogonal: a lattice matrix is    *)
(* diagonal and the cell angles are 90 degrees.                            *)
(***************************************************************************)
Diag(a, b, c) == << <<a, Zero, Zero>>, <<Zero, b, Zero>>, <<Zero, Zero, c>> >>

\* matrix * p/q, every entry
MatScale(m, p, q) ==
    [i \in 1..3 |-> [j \in 1..3 |-> MulFrac(m[i][j], p, q)]]

\* Lattice.from_matrix(matrix, ltype)
FromMatrix(m, ltype) == [matrix |-> m, ltype |-> ltype]

\* Lattice.from_para(a, b, c, alpha, beta, gamma, ltype), right angles
FromPara(a, b, c, alpha, beta, gamma, ltype) ==
    [matrix |-> Diag(a, b, c), ltype |-> ltype]

\* Lattice.get_para(degree=True): a, b, c, alpha, beta, gamma
GetPara(lat) ==
    << lat.matrix[1][1], lat.matrix[2][2], lat.matrix[3][3],
       Rat(90, 1), Rat(90, 1), Rat(90, 1) >>

\* Lattice.set_matrix(matrix)
SetMatrix(lat, m) == [lat EXCEPT !.matrix = m]

\* the translate of a fractional coordinate by 1/2, wrapped into [0, 1)
Half(x) ==
    IF 2 * x.n < x.d THEN Rat(2 * x.n + x.d, 2 * x.d)
    ELSE Rat(2 * x.n - x.d, 2 * x.d)

Centred(p) == [i \in 1..Len(p) |-> Half(p[i])]

\* the atoms a list of symmetry-reduced sites generates: the site itself
\* and, in a centred (non-primitive) group, its translate by (1/2,1/2,1/2)
RECURSIVE Expand(_, _)
Expand(sites, nonP) ==
    IF sites = <<>> THEN <<>>
    ELSE (IF nonP THEN <<Head(sites), Centred(Head(sites))>>
          ELSE <<Head(sites)>>) \o Expand(Tail(sites), nonP)

\* a pyxtal structure: lattice, symmetry-reduced sites, and whether the
\* space-group symbol starts with a letter other than P
Pyxtal(lat, sites, nonP) ==
    [type |-> "pyxtal", lattice |-> lat, atom_sites |-> sites, nonP |-> nonP]

\* an ase Atoms object: cell and scaled positions (kept in the same fields)
Atoms(cell, scaled) ==
    [type |-> "atoms", lattice |-> FromMatrix(cell, "triclinic"),
     atom_sites |-> scaled, nonP |-> FALSE]

NoStruc ==
    [type |-> "none", lattice |-> FromMatrix(Diag(Zero, Zero, Zero), "triclinic"),
     atom_sites |-> <<>>, nonP |-> FALSE]

\* pyxtal.to_ase(resort=False)
ToAse(s) == Atoms(s.lattice.matrix, Expand(s.atom_sites, s.nonP))

\* atom_site.update(pos) on site i of a pyxtal structure
SiteUpdate(s, i, pos) == [s EXCEPT !.atom_sites[i] = pos]

(***************************************************************************)
(* GULP.__init__                                                           *)
(***************************************************************************)
NoPressure == [set |-> FALSE, v |-> Zero]
Pressure(x) == [set |-> TRUE, v |-> x]

NoArray == [set |-> FALSE, v |-> <<>>]
Array(a) == [set |-> TRUE, v |-> a]

\* GULP(struc, ...): ref names the object struc, obj is that object
GulpInit(ref, obj, pstress, opt, steps, symmetry) ==
    LET atoms == IF obj.type = "pyxtal" THEN ToAse(obj) ELSE obj
    IN  [pyxtal |-> IF obj.type = "pyxtal" THEN ref ELSE "none",
         lattice |-> FromMatrix(atoms.lattice.matrix, "triclinic"),
         frac_coords |-> atoms.atom_sites,
         sites |-> [i \in 1..Len(atoms.atom_sites) |-> "C"],
         symmetry |-> symmetry,
         pstress |-> pstress,
         opt |-> opt,
         steps |-> steps,
         iter |-> 0,
         energy |-> None,
         energy_per_atom |-> None,
         stress |-> NoArray,
         forces |-> NoArray,
         optimized |-> FALSE,
         cputime |-> Zero,
         error |-> FALSE]

(***************************************************************************)
(* GULP.write: the input file, block by block.                             *)
(***************************************************************************)
\* '{:w.kf}'.format(x): x rounded to k decimals
FmtFixed(x, k) ==
    LET r == (2 * Abs(x.n) * Pow10(k) + x.d) \div (2 * x.d)
    IN  Rat((IF x.n < 0 THEN -1 ELSE 1) * r, Pow10(k))

FmtRow(p) == [i \in 1..Len(p) |-> FmtFixed(p[i], 6)]

NoFile ==
    [exists |-> FALSE, directive |-> "", nosymmetry |-> FALSE, cell |-> <<>>,
     fractional |-> <<>>, space |-> FALSE, maxcycle |-> 0,
     pressure |-> NoPressure]

\* the file write() leaves; heapv is the object store (for self.pyxtal)
WriteFile(c, heapv) ==
    [exists |-> TRUE,
     directive |-> IF c.opt = "single" THEN "grad conp stress"
                   ELSE "opti stress " \o c.opt \o " conjugate",
     nosymmetry |-> ~c.symmetry,
     cell |-> FmtRow(GetPara(c.lattice)),
     fractional |->
        IF c.symmetry /\ c.pyxtal # "none"
        THEN [i \in 1..Len(heapv[c.pyxtal].atom_sites) |->
                 FmtRow(heapv[c.pyxtal].atom_sites[i])]
        ELSE [i \in 1..Min(Len(c.frac_coords), Len(c.sites)) |->
                 FmtRow(c.frac_coords[i])],
     space |-> c.symmetry /\ c.pyxtal # "none",
     maxcycle |-> IF c.opt # "single" THEN c.steps ELSE 0,
     pressure |-> IF c.pstress.set
                  THEN Pressure(FmtFixed(c.pstress.v, 3)) ELSE NoPressure]

(***************************************************************************)
(* GULP.read: the scan of the report.  A line is [kind, toks]: kind names  *)
(* the marker text the line holds ("row" and "other" hold none, "sep" is a *)
(* line of dashes) and toks is line.split().  Line numbers are 1-based:    *)
(* the source's lines[i+k] is lines[n+k] here.                             *)
(***************************************************************************)
Fail == [ok |-> FALSE, v |-> <<>>]
Ok(x) == [ok |-> TRUE, v |-> x]

\* toks[3:6]
Slice36(toks) == SubSeq(toks, 4, Min(6, Len(toks)))

\* lines[n].split()[idx], idx counted from 0 as in the source
TokAt(lines, n, idx) ==
    IF n <= Len(lines) /\ idx < Len(lines[n].toks)
    THEN Ok(lines[n].toks[idx + 1]) ELSE Fail

\* float(lines[n].split()[idx])
FloatAt(lines, n, idx) ==
    LET t == TokAt(lines, n, idx)
    IN  IF t.ok THEN Float(t.v) ELSE [ok |-> FALSE, v |-> None]

\* [float(x) for x in ts]
FloatsOf(ts) ==
    [ok |-> \A i \in 1..Len(ts) : Float(ts[i]).ok,
     v |-> [i \in 1..Len(ts) |-> Float(ts[i]).v]]

\* a slip: the enthalpy marker for every configured pressure, zero included
EnergyMarkerAnyPressure(symmetry, nonP, pstress) ==
    IF symmetry /\ nonP THEN "nonprim_energy"
    ELSE IF ~pstress.set THEN "energy"
    ELSE "enthalpy"

\* the marker whose regular expression read() tries on every line
EnergyMarker(symmetry, nonP, pstress) ==
    IF symmetry /\ nonP THEN "nonprim_energy"
    ELSE IF ~pstress.set \/ pstress.v = Zero THEN "energy"
    ELSE "enthalpy"

\* re.match(marker ... = (\S+) eV, line): the line is the marker's three
\* words, "=", a value and eV
RegexMatch(line, marker) ==
    line.kind = marker /\ Len(line.toks) = 6 /\ line.toks[6] = <<"e", "V">>

\* m.group(1)
Capture(line) == line.toks[5]

\* the positions (from 2 on) of the minus signs inside a token
MinusIndex(tok) == {p \in 2..Len(tok) : tok[p] = "-"}

SetMin(S) == CHOOSE x \in S : \A y \in S : x <= y

Pad3(g) == g \o [i \in 1..(3 - Len(g)) |-> <<" ">>]

\* j = 0 of the repair loop; brk tells that the loop was left by break
RepairFirst(g) ==
    LET mi == MinusIndex(g[1])
        m0 == SetMin(mi)
        m1 == SetMin(mi \ {m0})
    IN  IF mi = {} THEN [g |-> g, brk |-> FALSE]
        ELSE IF Cardinality(mi) = 1
        THEN [g |-> << SubSeq(g[1], 1, m0 - 1),
                        SubSeq(g[1], m0, Len(g[1])),
                        g[2] >>,
              brk |-> FALSE]
        ELSE [g |-> << SubSeq(g[1], 1, m0 - 1),
                        SubSeq(g[1], m0, m1 - 1),
                        SubSeq(g[1], m1, Len(g[1])) >>,
              brk |-> TRUE]

\* a slip: the second field is never split
RepairSecondSkipped(g) == g

\* j = 1 of the repair loop
RepairSecond(g) ==
    LET mi == MinusIndex(g[2])
        m0 == SetMin(mi)
    IN  IF mi = {} THEN g
        ELSE << g[1], SubSeq(g[2], 1, m0 - 1), SubSeq(g[2], m0, Len(g[2])) >>

\* the three fields of a row of the derivatives table, after the repair
RepairRow(toks) ==
    LET first == RepairFirst(Pad3(Slice36(toks)))
    IN  IF first.brk THEN first.g ELSE RepairSecond(first.g)

\* G = [-float(x) * eV / Ang for x in g]
ForceRow(toks) ==
    LET f == FloatsOf(RepairRow(toks))
    IN  IF f.ok THEN Ok([i \in 1..3 |-> Neg(f.v[i])]) ELSE Fail

\* the rows of the derivatives table from line s to the separator
RECURSIVE ForceRows(_, _, _)
ForceRows(lines, s, acc) ==
    IF s > Len(lines) THEN Fail
    ELSE IF lines[s].kind = "sep" THEN Ok(acc)
    ELSE LET G == ForceRow(lines[s].toks)
         IN  IF G.ok THEN ForceRows(lines, s + 1, Append(acc, G.v)) ELSE Fail

\* the rows of the fractional-coordinate table from line s to the separator
RECURSIVE FracRows(_, _, _)
FracRows(lines, s, acc) ==
    IF s > Len(lines) THEN Fail
    ELSE IF lines[s].kind = "sep" THEN Ok(acc)
    ELSE LET XYZ == FloatsOf(Slice36(lines[s].toks))
         IN  IF XYZ.ok /\ Len(lines[s].toks) >= 2
             THEN FracRows(lines, s + 1, Append(acc, XYZ.v)) ELSE Fail

\* the asymmetric-unit rows: site _i is updated in place from line s + _i
\* until a row fails; obj is the pyxtal object
RECURSIVE AsymRows(_, _, _, _)
AsymRows(lines, s, i, obj) ==
    IF i > Len(obj.atom_sites) THEN [ok |-> TRUE, obj |-> obj]
    ELSE IF s + i - 1 > Len(lines) THEN [ok |-> FALSE, obj |-> obj]
    ELSE LET XYZ == FloatsOf(Slice36(lines[s + i - 1].toks))
         IN  IF XYZ.ok
             THEN AsymRows(lines, s, i + 1, SiteUpdate(obj, i, XYZ.v))
             ELSE [ok |-> FALSE, obj |-> obj]

\* the six stress components from the three rows below the header
StressRows(lines, n) ==
    LET a == [j \in 1..3 |-> FloatAt(lines, n + j + 2, 1)]
        b == [j \in 1..3 |-> FloatAt(lines, n + j + 2, 3)]
    IN  IF \A j \in 1..3 : a[j].ok /\ b[j].ok
        THEN Ok(<<a[1].v, a[2].v, a[3].v, b[1].v, b[2].v, b[3].v>>)
        ELSE Fail

\* the 3x3 matrix from the three rows two lines below the header
CartRows(lines, n) ==
    LET m == [j \in 1..3 |-> [k \in 1..3 |-> FloatAt(lines, n + 1 + j, k - 1)]]
    IN  IF \A j \in 1..3 : \A k \in 1..3 : m[j][k].ok
        THEN Ok([j \in 1..3 |-> [k \in 1..3 |-> m[j][k].v]])
        ELSE Fail

\* a, b, c and alpha, beta, gamma from the two lines below the header
ParaRows(lines, n) ==
    LET abc == << FloatAt(lines, n + 2, 2), FloatAt(lines, n + 2, 5),
                  FloatAt(lines, n + 2, 8) >>
        ang == << FloatAt(lines, n + 3, 1), FloatAt(lines, n + 3, 3),
                  FloatAt(lines, n + 3, 5) >>
    IN  IF \A j \in 1..3 : abc[j].ok /\ ang[j].ok
        THEN Ok(<<abc[1].v, abc[2].v, abc[3].v, ang[1].v, ang[2].v, ang[3].v>>)
        ELSE Fail

NoLattice == [set |-> FALSE, v |-> FromMatrix(Diag(Zero, Zero, Zero), "triclinic")]
SomeLattice(l) == [set |-> TRUE, v |-> l]

Raise(st) == [st EXCEPT !.exc = TRUE]

\* the branch taken on the line that matched the energy marker
OnEnergy(st, line) ==
    LET f == Float(Capture(line))
    IN  IF ~f.ok \/ Len(st.c.frac_coords) = 0 THEN Raise(st)
        ELSE [st EXCEPT !.c.energy = f.v,
                        !.c.energy_per_atom =
                            DivInt(f.v, Len(st.c.frac_coords))]

\* one iteration of the for loop: line n of the report
ScanLine(st, lines, n, ltype) ==
    LET line == lines[n]
        kind == line.kind
    IN  IF st.c.symmetry /\ st.c.pyxtal = "none" THEN Raise(st)
        ELSE IF RegexMatch(line,
                    EnergyMarker(st.c.symmetry, st.obj.nonP, st.c.pstress))
        THEN OnEnergy(st, line)
        ELSE CASE kind = "finished" -> [st EXCEPT !.c.optimized = TRUE]
          [] kind = "cputime" ->
                LET f == IF line.toks = <<>> THEN [ok |-> FALSE, v |-> None]
                         ELSE Float(line.toks[Len(line.toks)])
                IN  IF f.ok THEN [st EXCEPT !.c.cputime = f.v] ELSE Raise(st)
          [] kind = "stress" ->
                LET r == StressRows(lines, n)
                IN  IF r.ok THEN [st EXCEPT !.c.stress = Array(r.v)]
                    ELSE Raise(st)
          [] kind = "forces" ->
                LET r == ForceRows(lines, n + 6, <<>>)
                IN  IF r.ok THEN [st EXCEPT !.c.forces = Array(r.v)]
                    ELSE Raise(st)
          [] kind = "cycle" ->
                LET t == TokAt(lines, n, 1)
                    v == IF t.ok THEN ParseInt(t.v) ELSE [ok |-> FALSE, v |-> 0]
                IN  IF v.ok THEN [st EXCEPT !.c.iter = v.v] ELSE Raise(st)
          [] kind = "asym" ->
                IF st.c.pyxtal = "none" THEN Raise(st)
                ELSE LET r == AsymRows(lines, n + 6, 1, st.obj)
                     IN  [st EXCEPT !.obj = r.obj, !.exc = ~r.ok]
          [] kind = "frac" ->
                LET r == FracRows(lines, n + 6, <<>>)
                IN  IF r.ok THEN [st EXCEPT !.c.frac_coords = r.v]
                    ELSE Raise(st)
          [] kind = "cart" ->
                LET r == CartRows(lines, n)
                IN  IF r.ok
                    THEN [st EXCEPT !.lattice_vector =
                                        SomeLattice(FromMatrix(r.v, ltype))]
                    ELSE Raise(st)
          [] kind = "para" ->
                LET r == ParaRows(lines, n)
                IN  IF r.ok
                    THEN [st EXCEPT !.lattice_para =
                            SomeLattice(FromPara(r.v[1], r.v[2], r.v[3],
                                                 r.v[4], r.v[5], r.v[6], ltype))]
                    ELSE Raise(st)
          [] OTHER -> st

\* the for loop, left at the first exception
RECURSIVE Scan(_, _, _, _)
Scan(st, lines, n, ltype) ==
    IF n > Len(lines) \/ st.exc THEN st
    ELSE Scan(ScanLine(st, lines, n, ltype), lines, n + 1, ltype)

\* a slip: no except clause, the energy scanned before the exception is kept
AfterScanNoExcept(st) ==
    LET c2 == IF st.lattice_para.set
              THEN [st.c EXCEPT !.lattice = st.lattice_para.v]
              ELSE IF st.lattice_vector.set
              THEN [st.c EXCEPT !.lattice = st.lattice_vector.v]
              ELSE [st.c EXCEPT !.error = TRUE, !.energy = None]
        obj == IF c2.pyxtal # "none"
               THEN [st.obj EXCEPT !.lattice = c2.lattice] ELSE st.obj
        c3 == IF c2.energy = None \/ IsNan(c2.energy)
              THEN [c2 EXCEPT !.error = TRUE, !.energy = None]
              ELSE c2
    IN  [c |-> c3, obj |-> obj, exc |-> st.exc]

\* what follows the loop: the except clause, the lattice, the energy check
AfterScan(st) ==
    LET c1 == IF st.exc THEN [st.c EXCEPT !.error = TRUE, !.energy = None]
              ELSE st.c
        c2 == IF st.lattice_para.set
              THEN [c1 EXCEPT !.lattice = st.lattice_para.v]
              ELSE IF st.lattice_vector.set
              THEN [c1 EXCEPT !.lattice = st.lattice_vector.v]
              ELSE [c1 EXCEPT !.error = TRUE, !.energy = None]
        obj == IF c2.pyxtal # "none"
               THEN [st.obj EXCEPT !.lattice = c2.lattice] ELSE st.obj
        c3 == IF c2.energy = None \/ IsNan(c2.energy)
              THEN [c2 EXCEPT !.error = TRUE, !.energy = None]
              ELSE c2
    IN  [c |-> c3, obj |-> obj, exc |-> st.exc]

\* read(): c is the calculator, obj the object self.pyxtal names (NoStruc
\* when there is none); the result is the calculator and that object
ReadReport(c, obj, lines) ==
    LET ltype == IF c.pyxtal # "none" THEN obj.lattice.ltype ELSE "triclinic"
        st0 == [c |-> c, obj |-> obj, lattice_para |-> NoLattice,
                lattice_vector |-> NoLattice, exc |-> FALSE]
    IN  AfterScan(Scan(st0, lines, 1, ltype))

(***************************************************************************)
(* The reports the executable leaves in the output file.  A report is      *)
(* printed section by section in GULP's layout; a section is               *)
(* [sec, tok, rows, how, trail, closed].                                   *)
(***************************************************************************)
W == <<"w">>
EV == <<"e", "V">>
Dashes == <<"-", "-", "-", "-", "-", "-", "-", "-", "-", "-", "-", "-">>

Line(kind, toks) == [kind |-> kind, toks |-> toks]
Words(kind, n) == Line(kind, [i \in 1..n |-> W])
Blank == Line("other", <<>>)
Sep == Line("sep", <<Dashes>>)

Section(sec, tok, rows, how, trail, closed) ==
    [sec |-> sec, tok |-> tok, rows |-> rows, how |-> how, trail |-> trail,
     closed |-> closed]

\* "  <marker> = <tok> eV"
EnergySec(marker, tok) == Section(marker, tok, <<>>, "eV", FALSE, TRUE)
\* "  <marker> = <tok> kJ/(mole unit cells)"
KjSec(marker, tok) == Section(marker, tok, <<>>, "kJ", FALSE, TRUE)
FinishedSec == Section("finished", <<>>, <<>>, "", FALSE, TRUE)
CpuSec(tok) == Section("cputime", tok, <<>>, "", FALSE, TRUE)
CycleSec(tok) == Section("cycle", tok, <<>>, "", FALSE, TRUE)
\* a table of rows; closed tells whether the closing separator was printed
TableSec(sec, rows, closed) == Section(sec, <<>>, rows, "", TRUE, closed)
\* the derivatives table: how names the columns printed without a space
\* between them, trail whether the Radius column is printed
ForcesSec(rows, how, trail, closed) ==
    Section("forces", <<>>, rows, how, trail, closed)

\* a row of a coordinate table: No., label, core/shell, x, y, z, occupancy
CoordRow(p) == Line("row", <<W, W, W>> \o p \o <<W>>)

\* a row of the derivatives table with its columns merged as how says
DerivRow(p, how, trail) ==
    Line("row",
         <<W, W, W>>
         \o (CASE how = "xy" -> <<p[1] \o p[2], p[3]>>
               [] how = "yz" -> <<p[1], p[2] \o p[3]>>
               [] how = "xyz" -> <<p[1] \o p[2] \o p[3]>>
               [] OTHER -> p)
         \o (IF trail THEN <<W>> ELSE <<>>))

TableHead(kind, n) ==
    <<Words(kind, n), Blank, Sep, Words("other", 6), Words("other", 5), Sep>>

PrintSection(s) ==
    CASE s.sec \in {"energy", "enthalpy", "nonprim_energy"} ->
            << Line(s.sec, <<W, W, W, W, s.tok,
                             IF s.how = "eV" THEN EV ELSE W>>) >>
      [] s.sec = "finished" -> << Words("finished", 7) >>
      [] s.sec = "cputime" -> << Line("cputime", <<W, W, W, s.tok>>) >>
      [] s.sec = "cycle" ->
            << Line("cycle", <<W, s.tok, W, W, W, W, W, W>>) >>
      [] s.sec = "stress" ->
            << Words("stress", 5), Blank, Sep >>
            \o [i \in 1..Len(s.rows) |->
                   Line("row", <<W, s.rows[i][1], W, s.rows[i][2]>>)]
            \o (IF s.closed THEN <<Sep>> ELSE <<>>)
      [] s.sec = "forces" ->
            TableHead("forces", 4)
            \o [i \in 1..Len(s.rows) |-> DerivRow(s.rows[i], s.how, s.trail)]
            \o (IF s.closed THEN <<Sep>> ELSE <<>>)
      [] s.sec = "frac" ->
            TableHead("frac", 6)
            \o [i \in 1..Len(s.rows) |-> CoordRow(s.rows[i])]
            \o (IF s.closed THEN <<Sep>> ELSE <<>>)
      [] s.sec = "asym" ->
            TableHead("asym", 5)
            \o [i \in 1..Len(s.rows) |-> CoordRow(s.rows[i])]
            \o (IF s.closed THEN <<Sep>> ELSE <<>>)
      [] s.sec = "cart" ->
            << Words("cart", 6), Blank >>
            \o [i \in 1..Len(s.rows) |-> Line("row", s.rows[i])]
      [] s.sec = "para" ->
            << Words("para", 4), Blank >>
            \o (IF Len(s.rows) >= 1
                THEN << Line("row", <<W, W, s.rows[1][1], W, W, s.rows[1][2],
                                      W, W, s.rows[1][3]>>) >>
                ELSE <<>>)
            \o (IF Len(s.rows) >= 2
                THEN << Line("row", <<W, s.rows[2][1], W, s.rows[2][2],
                                      W, s.rows[2][3]>>) >>
                ELSE <<>>)

RECURSIVE Render(_)
Render(plan) ==
    IF plan = <<>> THEN <<>> ELSE PrintSection(Head(plan)) \o Render(Tail(plan))

(***************************************************************************)
(* The values the reports print.                                           *)
(***************************************************************************)
TNeg2 == <<"-", "2", ".", "0">>
TNeg4 == <<"-", "4", ".", "0">>
TZero == <<"0", ".", "0">>
TTiny == <<"0", ".", "0", "0", "0", "0", "0", "0", "0", "1">>
TNan == <<"n", "a", "n">>
TInf == <<"i", "n", "f">>
TNegInf == <<"-", "i", "n", "f">>
TStars == <<"*", "*", "*", "*", "*", "*", "*", "*">>
TOne == <<"1">>
TCpu == <<"1", ".", "5">>
TFour == <<"4", ".", "0">>
TSix == <<"6", ".", "0">>
TRight == <<"9", "0", ".", "0">>
TQuarter == <<"0", ".", "2", "5">>
TThreeQ == <<"0", ".", "7", "5">>
THalf == <<"0", ".", "5">>
TNegHalf == <<"-", "0", ".", "5">>
TNegFive4 == <<"-", "1", ".", "2", "5">>

Markers == {"energy", "enthalpy", "nonprim_energy"}

\* Final Cartesian lattice vectors of the cell 4 x 4 x 6
CartOk ==
    Section("cart", <<>>,
            << <<TFour, TZero, TZero>>, <<TZero, TFour, TZero>>,
               <<TZero, TZero, TSix>> >>, "", FALSE, TRUE)

\* Non-primitive lattice parameters of the cell 6 x 6 x 6
ParaOk ==
    Section("para", <<>>,
            << <<TSix, TSix, TSix>>, <<TRight, TRight, TRight>> >>,
            "", FALSE, TRUE)

StressOk ==
    Section("stress", <<>>,
            << <<TNeg2, TZero>>, <<TNeg2, TZero>>, <<TNeg4, TZero>> >>,
            "", FALSE, TRUE)

\* r rows of final coordinates, all different from the starting ones
NewCoords(r) == [i \in 1..r |-> <<TQuarter, TQuarter, TThreeQ>>]

FracOk(r) == TableSec("frac", NewCoords(r), TRUE)
AsymOk(r) == TableSec("asym", NewCoords(r), TRUE)

(***************************************************************************)
(* Reports for a single run of the parser.                                 *)
(***************************************************************************)
GoodLines == {EnergySec(m, t) : m \in Markers, t \in {TNeg2, TNeg4}}

EnergyParts ==
    {<<>>}
    \cup {<<a>> : a \in GoodLines}
    \cup {<<a, b>> : a \in GoodLines, b \in GoodLines}
    \cup {<<EnergySec(m, t)>> : m \in Markers,
                                 t \in {TNan, TInf, TNegInf, TStars}}
    \cup {<<KjSec(m, TNeg2)>> : m \in Markers}

LatticeParts ==
    {<<>>, <<CartOk>>, <<ParaOk>>, <<CartOk, ParaOk>>, <<ParaOk, CartOk>>}

\* energy lines of every kind and value, with and without a lattice
MarkerPlans ==
    {f \o e \o l : f \in {<<>>, <<FinishedSec>>}, e \in EnergyParts,
                   l \in LatticeParts}

\* a section that is cut off by the end of the file, or holds a field that
\* is no number
Broken ==
    { TableSec("frac", NewCoords(1), FALSE),
      TableSec("frac", << <<TQuarter, TStars, TThreeQ>> >>, TRUE),
      ForcesSec(<< <<THalf, THalf, THalf>> >>, "sep", TRUE, FALSE),
      ForcesSec(<< <<THalf, TStars, THalf>> >>, "sep", TRUE, TRUE),
      Section("stress", <<>>, << <<TNeg2, TZero>> >>, "", FALSE, FALSE),
      Section("stress", <<>>,
              << <<TNeg2, TZero>>, <<TStars, TZero>>, <<TNeg4, TZero>> >>,
              "", FALSE, TRUE),
      Section("cart", <<>>,
              << <<TFour, TZero, TZero>>, <<TZero, TFour, TZero>> >>,
              "", FALSE, FALSE),
      Section("cart", <<>>,
              << <<TFour, TZero, TZero>>, <<TZero, TFour>>,
                 <<TZero, TZero, TSix>> >>, "", FALSE, TRUE),
      Section("para", <<>>, << <<TSix, TSix, TSix>> >>, "", FALSE, FALSE),
      Section("para", <<>>,
              << <<TSix, TStars, TSix>>, <<TRight, TRight, TRight>> >>,
              "", FALSE, TRUE),
      CpuSec(TStars),
      CycleSec(TCpu),
      TableSec("asym", <<>>, FALSE),
      TableSec("asym", [i \in 1..(2 * MaxAtoms) |-> <<TQuarter, TStars, TThreeQ>>],
               TRUE),
      EnergySec("energy", TStars) }

\* a broken section at the end of a report that may hold an energy line
\* and a lattice before it
MalformedPlans ==
    {e \o l \o <<b>> :
        e \in {<<>>} \cup {<<EnergySec(m, TNeg2)>> : m \in Markers},
        l \in {<<>>, <<CartOk>>}, b \in Broken}

\* the energy line before, after, and on both sides of a coordinate table
OrderPlans ==
    UNION {
        { <<EnergySec(m, TNeg2), FracOk(r), CartOk>>,
          <<FracOk(r), EnergySec(m, TNeg2), CartOk>>,
          <<EnergySec(m, TNeg2), FracOk(r), EnergySec(m, TNeg4), CartOk>> }
        : m \in Markers, r \in 0..MaxAtoms }

Fields == {THalf, TNegHalf, TNegFive4}

IsNegative(t) == t[1] = "-"

\* a negative field may be printed without a space before it
MayMerge(p, how) ==
    CASE how = "sep" -> TRUE
      [] how = "xy" -> IsNegative(p[2])
      [] how = "yz" -> IsNegative(p[3])
      [] how = "xyz" -> IsNegative(p[2]) /\ IsNegative(p[3])

\* one row of derivatives, its columns merged in every way GULP prints them
ForcePlans ==
    { <<EnergySec("energy", TNeg2),
        ForcesSec(<< <<x, y, z>> >>, how, trail, TRUE), CartOk>> :
        x \in Fields, y \in Fields, z \in Fields,
        how \in {"sep", "xy", "yz", "xyz"}, trail \in BOOLEAN }

\* a complete report of a finished optimisation of r atoms
FullPlan(m, r) ==
    << CycleSec(TOne), EnergySec(m, TNeg2), FracOk(r), CartOk, StressOk,
       ForcesSec([i \in 1..r |-> <<THalf, TNegHalf, TNegFive4>>], "yz", TRUE,
                 TRUE),
       CpuSec(TCpu), FinishedSec >>

ReportsRun ==
    MarkerPlans \cup MalformedPlans \cup OrderPlans
    \cup {q \in ForcePlans : MayMerge(q[2].rows[1], q[2].how)}
    \cup {FullPlan(m, r) : m \in Markers, r \in 1..MaxAtoms}

(***************************************************************************)
(* Reports for the passes of single_optimize() and optimize().             *)
(***************************************************************************)
ReportsOpt ==
    {FullPlan("energy", r) : r \in 1..MaxAtoms}
    \cup {<<EnergySec("energy", TZero), FracOk(r), CartOk>> : r \in 1..MaxAtoms}
    \cup { <<EnergySec("energy", TZero), ParaOk, CpuSec(TCpu)>>,
           <<EnergySec("energy", TTiny), CartOk>>,
           <<EnergySec("energy", TInf), CartOk>>,
           <<EnergySec("energy", TNeg2), AsymOk(2 * MaxAtoms), CartOk>>,
           <<CartOk, CpuSec(TCpu)>>,
           <<EnergySec("energy", TNeg2), CartOk, CpuSec(TCpu),
             TableSec("frac", NewCoords(1), FALSE)>> }

(***************************************************************************)
(* The state.                                                              *)
(***************************************************************************)
VARIABLES
    entry,        \* the function the caller called: run, single_optimize, optimize
    args,         \* its arguments
    given,        \* the caller's structure as it was when the call was made
    heap,         \* the structure objects: the caller's, and to_pyxtal()'s
    struc,        \* the object the local variable struc names
    calc,         \* the GULP object of the pass in progress
    pc,           \* where the pass is
    inputFile,    \* the file write() leaves
    outputFile,   \* the lines of the file the executable leaves
    report,       \* what the executable printed, section by section
    scanRaised,   \* whether the scan of the last read() raised
    res,          \* what single_optimize() returned
    energy,       \* optimize(): energy
    time_total,   \* optimize(): time_total
    ret,          \* what the entry function returned
    hist,         \* one record per pass that was parsed
    passes        \* how many passes were constructed, written, executed

vars ==
    << entry, args, given, heap, struc, calc, pc, inputFile, outputFile,
       report, scanRaised, res, energy, time_total, ret, hist, passes >>

Steps == 1000
TolExp == 8
Modes == {"conp", "single"}

Refs == {"caller", "fresh"}

\* site i of the starting structures is at (i/10, i/10, i/10)
Sites(n) == [i \in 1..n |-> <<Rat(i, 10), Rat(i, 10), Rat(i, 10)>>]

Cell0 == Diag(Rat(5, 1), Rat(5, 1), Rat(5, 1))

Callers ==
    {Pyxtal(FromMatrix(Cell0, "orthorhombic"), Sites(n), nonP) :
        n \in 1..MaxAtoms, nonP \in BOOLEAN}
    \cup {Atoms(Cell0, Sites(n)) : n \in 1..MaxAtoms}

\* the tuple (None, None, 0, True)
Failure == [struc |-> "none", energy |-> None, time |-> Zero, error |-> TRUE]
NoResult == [struc |-> "none", energy |-> None, time |-> Zero, error |-> FALSE]

NoCalc == GulpInit("none", NoStruc, NoPressure, "conp", Steps, FALSE)

\* the sequences of modes tried: up to n passes, constant-pressure
\* relaxations with, possibly, a single-point calculation as the last one
Schedules(n) ==
    {[i \in 1..m |-> IF i = m THEN last ELSE "conp"] :
        m \in 1..n, last \in Modes}

InitCommon(s) ==
    /\ given = s
    /\ heap = [r \in Refs |-> IF r = "caller" THEN s ELSE NoStruc]
    /\ struc = "caller"
    /\ calc = NoCalc
    /\ pc = "Pending"
    /\ inputFile = NoFile
    /\ outputFile = <<>>
    /\ report = <<>>
    /\ scanRaised = FALSE
    /\ res = NoResult
    /\ energy = None
    /\ time_total = Zero
    /\ ret = NoResult
    /\ hist = <<>>
    /\ passes = [constructed |-> 0, written |-> 0, executed |-> 0]

\* calc = GULP(struc, pstress=..., symmetry=...); calc.run()
InitRun ==
    /\ entry = "run"
    /\ \E sym \in BOOLEAN, p \in {NoPressure, Pressure(Zero), Pressure(Rat(1, 1))} :
          args = [symmetry |-> sym, pstress |-> p, adjust |-> FALSE,
                  optimizations |-> <<"conp">>]
    /\ \E s \in Callers : InitCommon(s)

\* single_optimize(struc, ff, symmetry=...) and optimize(struc, ff,
\* optimizations=..., adjust=...)
Init ==
    /\ \/ /\ entry = "single_optimize"
          /\ \E sym \in BOOLEAN, o \in Modes :
                args = [symmetry |-> sym, pstress |-> NoPressure,
                        adjust |-> FALSE, optimizations |-> <<o>>]
       \/ /\ entry = "optimize"
          /\ \E adj \in BOOLEAN, os \in Schedules(MaxPasses) :
                args = [symmetry |-> FALSE, pstress |-> NoPressure,
                        adjust |-> adj, optimizations |-> os]
    /\ \E s \in Callers :
          \* the centring of the space group is only looked at with symmetry
          /\ args.symmetry \/ ~s.nonP
          /\ InitCommon(s)

(***************************************************************************)
(* The steps of a pass.                                                    *)
(***************************************************************************)
\* calc = GULP(struc, ...), for the next mode of the sequence
Construct ==
    /\ pc = "Pending"
    /\ passes.constructed < Len(args.optimizations)
    /\ calc' = GulpInit(struc, heap[struc], args.pstress,
                        args.optimizations[passes.constructed + 1], Steps,
                        args.symmetry)
    /\ passes' = [passes EXCEPT !.constructed = @ + 1]
    /\ pc' = "Constructed"
    /\ UNCHANGED << entry, args, given, heap, struc, inputFile, outputFile,
                    report, scanRaised, res, energy, time_total, ret, hist >>

\* self.write()
Write ==
    /\ pc = "Constructed"
    /\ inputFile' = WriteFile(calc, heap)
    /\ passes' = [passes EXCEPT !.written = @ + 1]
    /\ pc' = "Written"
    /\ UNCHANGED << entry, args, given, heap, struc, calc, outputFile, report,
                    scanRaised, res, energy, time_total, ret, hist >>

\* self.execute(): the executable leaves a report in the output file
Execute ==
    /\ pc = "Written"
    /\ \E plan \in (IF entry = "run" THEN ReportsRun ELSE ReportsOpt) :
          /\ report' = plan
          /\ outputFile' = Render(plan)
    /\ passes' = [passes EXCEPT !.executed = @ + 1]
    /\ pc' = "Executed"
    /\ UNCHANGED << entry, args, given, heap, struc, calc, inputFile,
                    scanRaised, res, energy, time_total, ret, hist >>

\* the record of a pass: its input, what it started from, what it read
PassRecord(c0, c1, file, plan) ==
    [input |-> file, started |-> c0.frac_coords, lattice0 |-> c0.lattice,
     report |-> plan, error |-> c1.error, energy |-> c1.energy,
     energy_per_atom |-> c1.energy_per_atom, lattice |-> c1.lattice,
     frac_coords |-> c1.frac_coords]

\* self.read(); self.clean()
Read ==
    /\ pc = "Executed"
    /\ LET obj == IF calc.pyxtal = "none" THEN NoStruc ELSE heap[calc.pyxtal]
           r == ReadReport(calc, obj, outputFile)
       IN  /\ calc' = r.c
           /\ heap' = IF calc.pyxtal = "none" THEN heap
                      ELSE [heap EXCEPT ![calc.pyxtal] = r.obj]
           /\ scanRaised' = r.exc
           /\ hist' = Append(hist, PassRecord(calc, r.c, inputFile, report))
    /\ inputFile' = NoFile
    /\ outputFile' = <<>>
    /\ pc' = IF entry = "run" THEN "Done" ELSE "Parsed"
    /\ UNCHANGED << entry, args, given, struc, report, res, energy,
                    time_total, ret, passes >>

\* GULP.to_pyxtal(): the structure found from the calculator's atoms, every
\* atom a site of its own
ToPyxtal(c) ==
    Pyxtal(FromMatrix(c.lattice.matrix, "triclinic"), c.frac_coords, FALSE)

\* GULP.to_ase() raises when there are not as many positions as symbols
ToAseRaises(c) == Len(c.frac_coords) # Len(c.sites)

\* the lines of single_optimize() after calc.run()
SingleReturn ==
    /\ pc = "Parsed"
    /\ IF calc.error
       THEN /\ res' = Failure
            /\ pc' = "Returned"
            /\ heap' = heap
       ELSE IF calc.pyxtal = "none"
       THEN IF ToAseRaises(calc)
            THEN /\ pc' = "Raised"
                 /\ UNCHANGED << res, heap >>
            ELSE /\ heap' = [heap EXCEPT !["fresh"] = ToPyxtal(calc)]
                 /\ res' = [struc |-> "fresh", energy |-> calc.energy_per_atom,
                            time |-> calc.cputime, error |-> calc.error]
                 /\ pc' = "Returned"
       ELSE /\ res' = [struc |-> calc.pyxtal, energy |-> calc.energy_per_atom,
                       time |-> calc.cputime, error |-> calc.error]
            /\ pc' = "Returned"
            /\ heap' = heap
    /\ UNCHANGED << entry, args, given, struc, calc, inputFile, outputFile,
                    report, scanRaised, energy, time_total, ret, hist, passes >>

\* single_optimize() was the entry: its result goes to the caller
SingleDone ==
    /\ pc = "Returned"
    /\ entry = "single_optimize"
    /\ ret' = res
    /\ pc' = "Done"
    /\ UNCHANGED << entry, args, given, heap, struc, calc, inputFile,
                    outputFile, report, scanRaised, res, energy, time_total,
                    hist, passes >>

\* abs(energy) < 1e-8
NearZero(e) == AbsBelowPow10(e, TolExp)

\* a slip: the matrix divided by 0.8
ShrinkInverted(m) == MatScale(m, 5, 4)

\* matrix * 0.8
Shrink(m) == MatScale(m, 4, 5)

\* a slip: the error of a pass is not looked at
AbortsNever(r) == FALSE

\* if error: return None, None, 0, True
Aborts(r) == r.error

\* the body of the loop of optimize() after single_optimize() returned
OptimizeStep ==
    /\ pc = "Returned"
    /\ entry = "optimize"
    /\ struc' = res.struc
    /\ energy' = res.energy
    /\ time_total' = Add(time_total, res.time)
    /\ IF Aborts(res)
       THEN /\ ret' = Failure
            /\ pc' = "Done"
            /\ heap' = heap
       ELSE /\ heap' = IF args.adjust /\ NearZero(res.energy)
                       THEN [heap EXCEPT ![res.struc].lattice =
                                SetMatrix(@, Shrink(@.matrix))]
                       ELSE heap
            /\ pc' = "Pending"
            /\ ret' = ret
    /\ UNCHANGED << entry, args, given, calc, inputFile, outputFile, report,
                    scanRaised, res, hist, passes >>

\* the loop is over: return struc, energy, time_total, False
OptimizeReturn ==
    /\ pc = "Pending"
    /\ entry = "optimize"
    /\ passes.constructed = Len(args.optimizations)
    /\ ret' = [struc |-> struc, energy |-> energy, time |-> time_total,
               error |-> FALSE]
    /\ pc' = "Done"
    /\ UNCHANGED << entry, args, given, heap, struc, calc, inputFile,
                    outputFile, report, scanRaised, res, energy, time_total,
                    hist, passes >>

NextRun == Construct \/ Write \/ Execute \/ Read

Next ==
    \/ Construct
    \/ Write
    \/ Execute
    \/ Read
    \/ SingleReturn
    \/ SingleDone
    \/ OptimizeStep
    \/ OptimizeReturn

\* GULP(...).run()
SpecRun == InitRun /\ [][NextRun]_vars

\* single_optimize() and optimize()
Spec == Init /\ [][Next]_vars

(***************************************************************************)
(* What the claims are stated with.                                        *)
(***************************************************************************)
\* the values of the eV lines of a marker kind, in the order printed
RECURSIVE ValuesOf(_, _)
ValuesOf(plan, marker) ==
    IF plan = <<>> THEN <<>>
    ELSE (IF Head(plan).sec = marker /\ Head(plan).how = "eV"
          THEN <<Head(plan).tok>> ELSE <<>>) \o ValuesOf(Tail(plan), marker)

HasLine(plan, marker) == ValuesOf(plan, marker) # <<>>

LastValue(plan, marker) ==
    Float(ValuesOf(plan, marker)[Len(ValuesOf(plan, marker))]).v

\* symmetry is imposed on a structure that has no symmetry-reduced sites
NoSitesForSymmetry == args.symmetry /\ given.type = "atoms"

NonPrimitive == given.type = "pyxtal" /\ given.nonP

\* the coordinates a report's fractional-coordinate table lists
TableCoords(plan) ==
    LET i == CHOOSE j \in 1..Len(plan) : plan[j].sec = "frac"
    IN  [r \in 1..Len(plan[i].rows) |-> FloatsOf(plan[i].rows[r]).v]

HasTable(plan) == \E j \in 1..Len(plan) : plan[j].sec = "frac"

(***************************************************************************)
(* C1 (optimize).  If a pass ends with its error flag set, it is the last  *)
(* pass: no later pass is constructed, written or executed, and optimize() *)
(* returns (None, None, 0, True); and optimize() returns error = False     *)
(* only if no pass ended with its error flag set.                          *)
(***************************************************************************)
C1_ErrorEndsTheSequence ==
    entry = "optimize" =>
       /\ \A j \in 1..Len(hist) :
             hist[j].error =>
                /\ j = Len(hist)
                /\ passes = [constructed |-> j, written |-> j, executed |-> j]
                /\ pc \in {"Parsed", "Returned", "Done"}
                /\ pc = "Done" => ret = Failure
       /\ (pc = "Done" /\ ~ret.error) =>
             \A j \in 1..Len(hist) : ~hist[j].error

\* the first of two passes failed and optimize() has returned
C1_Witness ==
    /\ entry = "optimize"
    /\ pc = "Done"
    /\ Len(args.optimizations) = 2
    /\ Len(hist) = 1
    /\ hist[1].error
    /\ ret = Failure

(***************************************************************************)
(* C2 (optimize).  While the second pass is constructed, written and       *)
(* executed, the lattice matrix it read from the threaded structure, and   *)
(* the cell it wrote, are the first pass's resolved lattice times 0.8 when *)
(* adjust is on and the first pass's energy is below 1e-8 in magnitude,    *)
(* and the resolved lattice itself otherwise; the first pass is not run    *)
(* again.                                                                  *)
(***************************************************************************)
C2_ShrinkBetweenPasses ==
    (/\ entry = "optimize"
     /\ passes.constructed = 2
     /\ Len(hist) = 1
     /\ pc \in {"Constructed", "Written", "Executed"}) =>
       LET e == hist[1].energy_per_atom
           small == e.k = "fin" /\ Abs(e.n) * 100000000 < e.d
           m == hist[1].lattice.matrix
           expected ==
              IF args.adjust /\ small
              THEN [i \in 1..3 |-> [j \in 1..3 |->
                                       Rat(m[i][j].n * 4, m[i][j].d * 5)]]
              ELSE m
       IN  /\ calc.lattice.matrix = expected
           /\ pc # "Constructed" =>
                 /\ inputFile.exists
                 /\ \A i \in 1..3 : inputFile.cell[i] = expected[i][i]
           /\ passes.written = IF pc = "Constructed" THEN 1 ELSE 2
           /\ passes.executed = IF pc = "Executed" THEN 2 ELSE 1

\* [conp, conp] with adjust: the first pass read energy 0.0 and the cell
\* 4 x 4 x 6, the second wrote the cell 3.2 x 3.2 x 4.8
C2_Witness ==
    /\ entry = "optimize"
    /\ args.adjust
    /\ args.optimizations = <<"conp", "conp">>
    /\ pc = "Written"
    /\ Len(hist) = 1
    /\ hist[1].energy = Zero
    /\ hist[1].lattice.matrix = Diag(Rat(4, 1), Rat(4, 1), Rat(6, 1))
    /\ inputFile.cell[1] = Rat(16, 5)
    /\ inputFile.cell[3] = Rat(24, 5)

(***************************************************************************)
(* C3 (read).  If no line matched the energy marker, or the value of the   *)
(* line that matched is NaN or an infinity, read() ends with error = True  *)
(* and energy = None.                                                      *)
(***************************************************************************)
C3_NonFiniteEnergyIsAnError ==
    pc = "Done" =>
       LET marker == EnergyMarker(args.symmetry, NonPrimitive, args.pstress)
           absent == NoSitesForSymmetry \/ ~HasLine(report, marker)
           nonfinite == /\ ~absent
                        /\ LastValue(report, marker).k \in {"nan", "inf", "none"}
       IN  (absent \/ nonfinite) => (calc.error /\ calc.energy = None)

(***************************************************************************)
(* C4 (read).  Whenever the scan raises, read() returns with error = True  *)
(* and energy = None, also when an energy line was scanned before.         *)
(***************************************************************************)
C4_ScanErrorsAreFlagged ==
    (pc = "Done" /\ scanRaised) => (calc.error /\ calc.energy = None)

\* a well-formed energy line was scanned, then a broken section raised
C4_Witness ==
    /\ pc = "Done"
    /\ scanRaised
    /\ ~args.symmetry
    /\ Len(report) >= 2
    /\ report[1] = EnergySec("energy", TNeg2)
    /\ report[Len(report)] \in Broken
    /\ calc.energy_per_atom # None
    /\ calc.error
    /\ calc.energy = None

(***************************************************************************)
(* C5 (read), as claimed.  The energy of a run that ends without error is  *)
(* the value of the last line of one marker kind: 'Non-primitive unit      *)
(* cell' when symmetry is imposed on a non-primitive group, else 'Total    *)
(* lattice enthalpy' when pstress is not None, else 'Total lattice         *)
(* energy'; without a line of that kind no energy is set.                  *)
(***************************************************************************)
C5_MarkerAsClaimed ==
    pc = "Done" =>
       LET marker == IF args.symmetry /\ NonPrimitive THEN "nonprim_energy"
                     ELSE IF args.pstress.set THEN "enthalpy"
                     ELSE "energy"
       IN  /\ ~calc.error =>
                /\ HasLine(report, marker)
                /\ calc.energy = LastValue(report, marker)
           /\ ~HasLine(report, marker) =>
                (calc.energy = None /\ calc.energy_per_atom = None)

(***************************************************************************)
(* C5 (read), amended.  The same with the enthalpy marker selected only    *)
(* when pstress is neither None nor zero.                                  *)
(***************************************************************************)
C5_MarkerAmended ==
    pc = "Done" =>
       LET marker == IF args.symmetry /\ NonPrimitive THEN "nonprim_energy"
                     ELSE IF args.pstress.set /\ args.pstress.v.n # 0
                     THEN "enthalpy"
                     ELSE "energy"
       IN  /\ ~calc.error =>
                /\ HasLine(report, marker)
                /\ calc.energy = LastValue(report, marker)
           /\ ~HasLine(report, marker) =>
                (calc.energy = None /\ calc.energy_per_atom = None)

\* pressure 0: an enthalpy line and an energy line were printed, and the
\* energy is the energy line's
C5_Witness ==
    /\ pc = "Done"
    /\ ~calc.error
    /\ args.pstress = Pressure(Zero)
    /\ report = <<EnergySec("enthalpy", TNeg4), EnergySec("energy", TNeg2),
                  CartOk>>
    /\ calc.energy = Rat(-2, 1)

(***************************************************************************)
(* C6 (read).  A closed derivatives table whose rows hold three            *)
(* fixed-point fields, a negative field possibly printed without a space   *)
(* before it, with or without the Radius column, is stored as the          *)
(* sign-inverted fields of the rows, as if they were printed apart.        *)
(***************************************************************************)
C6_MergedRowsRepaired ==
    (/\ pc = "Done"
     /\ ~NoSitesForSymmetry
     /\ \/ report \in ForcePlans
        \/ \E m \in Markers, r \in 1..MaxAtoms : report = FullPlan(m, r)) =>
       LET t == report[CHOOSE j \in 1..Len(report) : report[j].sec = "forces"]
       IN  (\A r \in 1..Len(t.rows) : MayMerge(t.rows[r], t.how)) =>
              calc.forces =
                 Array([r \in 1..Len(t.rows) |->
                          [i \in 1..3 |-> Neg(Float(t.rows[r][i]).v)]])

\* the row -0.5-1.25-0.5, all three fields in one token and no Radius
\* column, was stored as (0.5, 1.25, 0.5)
C6_Witness ==
    /\ pc = "Done"
    /\ Len(report) = 3
    /\ report[2] = ForcesSec(<< <<TNegHalf, TNegFive4, TNegHalf>> >>, "xyz",
                             FALSE, TRUE)
    /\ calc.forces = Array(<< <<Rat(1, 2), Rat(5, 4), Rat(1, 2)>> >>)

(***************************************************************************)
(* C7 (read).  After a read() that ends without error, energy_per_atom is  *)
(* the energy divided by the number of atoms in the coordinate list the    *)
(* calculator holds, wherever the energy line and the coordinate table     *)
(* stand in the report.                                                    *)
(***************************************************************************)
C7_PerAtomEnergy ==
    (pc = "Done" /\ ~calc.error /\ Len(calc.frac_coords) >= 1) =>
       calc.energy_per_atom = DivInt(calc.energy, Len(calc.frac_coords))

(***************************************************************************)
(* C8.  The caller's structure keeps its lattice matrix and its            *)
(* symmetry-reduced site positions through every pass.                     *)
(***************************************************************************)
C8_CallerStructureUntouched ==
    /\ heap["caller"].lattice.matrix = given.lattice.matrix
    /\ heap["caller"].atom_sites = given.atom_sites

(***************************************************************************)
(* C9 (single_optimize).  When a pass ends without error and its report    *)
(* held a 'Final fractional coordinates of atoms' table, the structure     *)
(* single_optimize() returns has the lattice the parser resolved and the   *)
(* atoms at the coordinates of that table.                                 *)
(***************************************************************************)
C9_ReturnedStructureIsTheResult ==
    (pc = "Returned" /\ ~res.error /\ HasTable(report)) =>
       /\ heap[res.struc].lattice.matrix = calc.lattice.matrix
       /\ ToAse(heap[res.struc]).atom_sites = TableCoords(report)

(***************************************************************************)
(* C10 (optimize).  When optimize() returns without error, the lattice of  *)
(* the structure it returns is the lattice the last pass's parser          *)
(* resolved.                                                               *)
(***************************************************************************)
C10_ReturnedLatticeIsUnscaled ==
    (entry = "optimize" /\ pc = "Done" /\ ~ret.error) =>
       heap[ret.struc].lattice.matrix = hist[Len(hist)].lattice.matrix

=============================================================================
